---- MODULE Spec2Model ----
(***************************************************************************)
(* A model of src/compiler.js: the four-stage pipeline                     *)
(*   tokenizer -> parser -> transformer (driven by traverser)              *)
(*             -> codeGenerator                                            *)
(* that compiles LISP-like calls into C-like calls.                        *)
(*                                                                         *)
(* Text is a sequence of one-character strings.  Indexes of the source are *)
(* 0-based; `current` keeps the source's 0-based value and the model reads *)
(* input[current + 1].  Objects that the source aliases (the nodes of the  *)
(* source AST and the arrays of the target AST) live in heaps indexed by   *)
(* allocation order, so a reference is an index into the heap.             *)
(***************************************************************************)
EXTENDS Integers, Sequences, FiniteSets, TLC

VARIABLES
    input,      \* the source string handed to compiler
    pc,         \* the place of control in the pipeline
    status,     \* "running", "returned" or "thrown"
    error,      \* the value thrown, when status = "thrown"
    current,    \* tokenizer: the cursor
    tokens,     \* tokenizer: the token array; compiler: the tokens it returned
    value,      \* tokenizer: the text of the token being scanned
    ast,        \* the heap of source AST nodes, ast[Root] the Program
    lists,      \* the heap of arrays of the target trees (body, arguments)
    newAst,     \* transformer: the target Program being built / returned
    earlier,    \* the target Programs that earlier transformer calls returned
    visitor,    \* traverser: the visitor it was given
    stack,      \* traverser: the frames of traverserNode
    log,        \* the callbacks a recording visitor has seen
    output      \* compiler: the generated text

vars == <<input, pc, status, error, current, tokens, value, ast, lists,
          newAst, earlier, visitor, stack, log, output>>

----------------------------------------------------------------------------
(* Bounds of the model *)

\* longest arbitrary input string
MaxLen == 4
\* most AST nodes below Program in a generated well-formed program
MaxNodes == 4
\* the positions past the end of the input that are told apart: the cursor
\* stays at the last of them, where, as at each of them, input[current] is
\* undefined, and the text taken there is not kept
MaxOverrun == 2
\* most transformer calls on one source AST
MaxCalls == 2

----------------------------------------------------------------------------
(* Text *)

\* the value of input[i] for i outside the string
undefined == "undefined"

\* String(x) as `RegExp.prototype.test` and `+=` apply it to their operand
Str(c) ==
    IF c = undefined THEN <<"u", "n", "d", "e", "f", "i", "n", "e", "d">>
    ELSE <<c>>

Digits == {"0", "1", "2", "3", "4", "5", "6", "7", "8", "9"}

Letters ==
    {"a", "b", "c", "d", "e", "f", "g", "h", "i", "j", "k", "l", "m",
     "n", "o", "p", "q", "r", "s", "t", "u", "v", "w", "x", "y", "z",
     "A", "B", "C", "D", "E", "F", "G", "H", "I", "J", "K", "L", "M",
     "N", "O", "P", "Q", "R", "S", "T", "U", "V", "W", "X", "Y", "Z"}

Spaces == {" ", "\n", "\t", "\r", "\f"}

\* an unanchored one-character class matches when any character matches
Test(class, c) == \E i \in DOMAIN Str(c) : Str(c)[i] \in class

WHITESPACE(c) == Test(Spaces, c)
NUMBERS(c) == Test(Digits, c)
LETTERS(c) == Test(Letters, c)

----------------------------------------------------------------------------
(* Inputs *)

Alphabet == {"(", ")", " ", "1", "a", "\"", "$"}

Strings == UNION {[1..n -> Alphabet] : n \in 0..MaxLen}

RECURSIVE ExprTexts(_), ArgTexts(_)
\* the texts of the expressions with n nodes
ExprTexts(n) ==
    IF n = 1
    THEN {<<"1", "2">>, <<"\"", "s", "\"">>, <<"(", "a", "b", ")">>}
    ELSE {<<"(", "a", "b", " ">> \o t \o <<")">> : t \in ArgTexts(n - 1)}
\* the texts of the space-separated runs of expressions with n nodes in all
ArgTexts(n) ==
    ExprTexts(n) \cup
    UNION {{e \o <<" ">> \o r : e \in ExprTexts(k), r \in ArgTexts(n - k)} :
           k \in 1..(n - 1)}

Programs == UNION {ArgTexts(n) : n \in 1..MaxNodes}

\* lines 269-271: the three strings the program itself compiles
Examples ==
    {<<"(", "a", "d", "d", " ", "2", " ", "(", "s", "u", "b", "t", "r", "a", "c", "t", " ", "3", " ", "7", ")", ")">>,
     <<"(", "c", "o", "u", "n", "t", " ", "9", " ", "(", "a", "d", "d", " ", "2", " ", "6", ")", ")">>,
     <<"(", "s", "u", "b", " ", "3", " ", "(", "m", "u", "l", " ", "8", " ", "1", ")", ")">>}

Inputs == Strings \cup Programs \cup Examples

----------------------------------------------------------------------------
(* tokenizer, lines 20-101 *)

NoError == [name |-> "", message |-> <<>>]

TypeError(message) == [name |-> "TypeError", message |-> message]

\* `input[current]`
char == IF current < Len(input) THEN input[current + 1] ELSE undefined

Paren(c) == [type |-> "paren", value |-> <<c>>]

InTokenizer == pc = "tokenizer" /\ status = "running" /\ current < Len(input)

TokFrame == <<input, ast, lists, newAst, earlier, visitor, stack, log, output>>

LeftParen ==
    /\ InTokenizer
    /\ char = "("
    /\ tokens' = Append(tokens, Paren("("))
    /\ current' = current + 1
    /\ UNCHANGED <<pc, status, error, value, TokFrame>>

RightParen ==
    /\ InTokenizer
    /\ char = ")"
    /\ tokens' = Append(tokens, Paren(")"))
    /\ current' = current + 1
    /\ UNCHANGED <<pc, status, error, value, TokFrame>>

IsParen(c) == c = "(" \/ c = ")"

Whitespace ==
    /\ InTokenizer
    /\ ~IsParen(char)
    /\ WHITESPACE(char)
    /\ current' = current + 1
    /\ UNCHANGED <<pc, status, error, tokens, value, TokFrame>>

\* lines 55, 70 and 86, `value += char`
Appended(c) ==
    IF current < Len(input) + MaxOverrun THEN value \o Str(c) ELSE value

\* lines 56, 71 and 87, `++current`
Advanced == IF current < Len(input) + MaxOverrun THEN current + 1 ELSE current

\* lines 52-53: the branch is taken and value starts empty
NumberBegin ==
    /\ InTokenizer
    /\ ~IsParen(char) /\ ~WHITESPACE(char)
    /\ NUMBERS(char)
    /\ value' = <<>>
    /\ pc' = "tokenizer.number"
    /\ UNCHANGED <<status, error, current, tokens, TokFrame>>

\* line 54 with a loop that takes one digit
NumberLoopOnce(c) == NUMBERS(c) /\ value = <<>>

\* line 54, the condition of the digit loop
NumberLoopTest(c) == NUMBERS(c)

\* lines 54-55: the condition holds and the digit is taken
NumberLoop ==
    /\ pc = "tokenizer.number"
    /\ NumberLoopTest(char)
    /\ value' = Appended(char)
    /\ pc' = "tokenizer.number.next"
    /\ UNCHANGED <<status, error, current, tokens, TokFrame>>

\* line 56
NumberNext ==
    /\ pc = "tokenizer.number.next"
    /\ current' = Advanced
    /\ pc' = "tokenizer.number"
    /\ UNCHANGED <<status, error, tokens, value, TokFrame>>

\* lines 58-62
NumberPush ==
    /\ pc = "tokenizer.number"
    /\ ~NumberLoopTest(char)
    /\ tokens' = Append(tokens, [type |-> "number", value |-> value])
    /\ pc' = "tokenizer"
    /\ UNCHANGED <<status, error, current, value, TokFrame>>

\* lines 66-68
StringBegin ==
    /\ InTokenizer
    /\ ~IsParen(char) /\ ~WHITESPACE(char) /\ ~NUMBERS(char)
    /\ char = "\""
    /\ value' = <<>>
    /\ current' = current + 1
    /\ pc' = "tokenizer.string"
    /\ UNCHANGED <<status, error, tokens, TokFrame>>

\* line 69, the condition of the string loop
StringLoopTest(c) == c # "\""

\* lines 69-70: the condition holds and the character is taken.  Past the
\* end of the input char is undefined and the condition holds for ever
StringLoop ==
    /\ pc = "tokenizer.string"
    /\ StringLoopTest(char)
    /\ value' = Appended(char)
    /\ pc' = "tokenizer.string.next"
    /\ UNCHANGED <<status, error, current, tokens, TokFrame>>

\* line 71
StringNext ==
    /\ pc = "tokenizer.string.next"
    /\ current' = Advanced
    /\ pc' = "tokenizer.string"
    /\ UNCHANGED <<status, error, tokens, value, TokFrame>>

\* lines 73-78
StringPush ==
    /\ pc = "tokenizer.string"
    /\ ~StringLoopTest(char)
    /\ current' = current + 1
    /\ tokens' = Append(tokens, [type |-> "string", value |-> value])
    /\ pc' = "tokenizer"
    /\ UNCHANGED <<status, error, value, TokFrame>>

\* lines 83-84
NameBegin ==
    /\ InTokenizer
    /\ ~IsParen(char) /\ ~WHITESPACE(char) /\ ~NUMBERS(char) /\ char # "\""
    /\ LETTERS(char)
    /\ value' = <<>>
    /\ pc' = "tokenizer.name"
    /\ UNCHANGED <<status, error, current, tokens, TokFrame>>

\* line 85, the condition of the letter loop
NameLoopTest(c) == LETTERS(c)

\* lines 85-86: the condition holds and the character is taken.  Past the
\* end of the input String(char) is "undefined", which the class matches,
\* and the condition holds for ever
NameLoop ==
    /\ pc = "tokenizer.name"
    /\ NameLoopTest(char)
    /\ value' = Appended(char)
    /\ pc' = "tokenizer.name.next"
    /\ UNCHANGED <<status, error, current, tokens, TokFrame>>

\* line 87
NameNext ==
    /\ pc = "tokenizer.name.next"
    /\ current' = Advanced
    /\ pc' = "tokenizer.name"
    /\ UNCHANGED <<status, error, tokens, value, TokFrame>>

\* lines 89-93
NamePush ==
    /\ pc = "tokenizer.name"
    /\ ~NameLoopTest(char)
    /\ tokens' = Append(tokens, [type |-> "name", value |-> value])
    /\ pc' = "tokenizer"
    /\ UNCHANGED <<status, error, current, value, TokFrame>>

\* line 97, the message of the error
UnknownCharacter(c) == TypeError(<<"I don't know what this character is", c>>)

\* line 97
TokenizerThrow ==
    /\ InTokenizer
    /\ ~IsParen(char) /\ ~WHITESPACE(char) /\ ~NUMBERS(char) /\ char # "\""
    /\ ~LETTERS(char)
    /\ status' = "thrown"
    /\ error' = UnknownCharacter(char)
    /\ UNCHANGED <<pc, current, tokens, value, TokFrame>>

\* lines 23, 100 and 263: the loop ends and compiler holds the tokens
TokenizerReturn ==
    /\ pc = "tokenizer" /\ status = "running"
    /\ ~(current < Len(input))
    /\ pc' = "parser"
    /\ UNCHANGED <<status, error, current, tokens, value, TokFrame>>

tokenizer ==
    \/ LeftParen \/ RightParen \/ Whitespace
    \/ NumberBegin \/ NumberLoop \/ NumberNext \/ NumberPush
    \/ StringBegin \/ StringLoop \/ StringNext \/ StringPush
    \/ NameBegin \/ NameLoop \/ NameNext \/ NamePush
    \/ TokenizerThrow \/ TokenizerReturn

----------------------------------------------------------------------------
(* parser, lines 107-153 *)

\* the Program node is the first object of the heap
Root == 1

\* reading a property of undefined, as `token.type` does once the tokens
\* have run out
ReadOfUndefined == TypeError(<<"Cannot read properties of undefined">>)

Thrown(e) == [thrown |-> TRUE, error |-> e]

Walked(cur, heap, node) ==
    [thrown |-> FALSE, current |-> cur, heap |-> heap, node |-> node]

\* line 129: the name of a call is the value of the token after `(`
CalleeName(token) == token.value

\* lines 134-135, the condition of the params loop
ParamsLoopTest(token) ==
    \/ token.type # "paren"
    \/ (token.type = "paren" /\ token.value # <<")">>)

RECURSIVE walk(_, _, _), walkParams(_, _, _, _)

\* lines 109-144; cur is the shared cursor, heap the nodes built so far
walk(toks, cur, heap) ==
    IF ~(cur < Len(toks)) THEN Thrown(ReadOfUndefined)
    ELSE
    LET token == toks[cur + 1] IN
    IF token.type = "number"
    THEN Walked(cur + 1,
                Append(heap, [type |-> "NumberLiteral", value |-> token.value]),
                Len(heap) + 1)
    ELSE IF token.type = "string"
    THEN Walked(cur + 1,
                Append(heap, [type |-> "StringLiteral", value |-> token.value]),
                Len(heap) + 1)
    ELSE IF token.type = "paren" /\ token.value = <<"(">>
    THEN IF ~(cur + 1 < Len(toks)) THEN Thrown(ReadOfUndefined)
         ELSE walkParams(toks, cur + 2,
                         Append(heap, [type |-> "CallExpression",
                                       name |-> CalleeName(toks[cur + 2]),
                                       params |-> <<>>]),
                         Len(heap) + 1)
    ELSE Thrown(TypeError(<<token.type>>))

\* lines 133-141: the loop that collects the params of node
walkParams(toks, cur, heap, node) ==
    IF ~(cur < Len(toks)) THEN Thrown(ReadOfUndefined)
    ELSE IF ParamsLoopTest(toks[cur + 1])
    THEN LET r == walk(toks, cur, heap) IN
         IF r.thrown THEN r
         ELSE walkParams(toks, r.current,
                         [r.heap EXCEPT ![node].params = Append(@, r.node)],
                         node)
    ELSE Walked(cur + 1, heap, node)

RECURSIVE walkBody(_, _, _)

\* lines 149-151: the loop that collects the body of the Program
walkBody(toks, cur, heap) ==
    IF cur < Len(toks)
    THEN LET r == walk(toks, cur, heap) IN
         IF r.thrown THEN r
         ELSE walkBody(toks, r.current,
                       [r.heap EXCEPT ![Root].body = Append(@, r.node)])
    ELSE Walked(cur, heap, Root)

\* lines 107-153
parser(toks) == walkBody(toks, 0, <<[type |-> "Program", body |-> <<>>]>>)

PipeFrame == <<input, current, tokens, value, earlier, log>>

\* line 264
Parse ==
    /\ pc = "parser" /\ status = "running"
    /\ LET r == parser(tokens) IN
       IF r.thrown
       THEN /\ status' = "thrown"
            /\ error' = r.error
            /\ UNCHANGED <<pc, ast>>
       ELSE /\ ast' = r.heap
            /\ pc' = "transformer"
            /\ UNCHANGED <<status, error>>
    /\ UNCHANGED <<PipeFrame, lists, newAst, visitor, stack, output>>

----------------------------------------------------------------------------
(* traverser, lines 155-185, and the visitor of transformer, lines 195-232 *)

\* line 184: the parent handed to the callbacks of the root
null == 0

SourceTypes == {"Program", "CallExpression", "NumberLiteral", "StringLiteral"}

NoVisitor == [kind |-> "none", methods |-> [t \in SourceTypes |-> {}]]

\* lines 195-232: enter for the two literals and for CallExpression, no exit,
\* nothing for Program
TransformerVisitor ==
    [kind |-> "transformer",
     methods |-> [t \in SourceTypes |->
                    IF t = "Program" THEN {} ELSE {"enter"}]]

\* a visitor that records each callback it is given; ms says which exist
Recorder(ms) == [kind |-> "recorder", methods |-> ms]

\* `node._context = list`, adding the property when the node has none
SetContext(node, list) ==
    [f \in DOMAIN node \cup {"_context"} |->
        IF f = "_context" THEN list ELSE node[f]]

\* line 224 with the test turned round
IsStatementFlipped(parentType) == parentType = "CallExpression"

\* line 224: whether the new call is wrapped in an ExpressionStatement
IsStatement(parentType) == parentType # "CallExpression"

\* lines 215-229: the target node built for a source CallExpression whose
\* arguments array is `args`
CallTarget(node, parentType, args) ==
    LET expression == [type |-> "CallExpression",
                       callee |-> [type |-> "Identifier", name |-> node.name],
                       arguments |-> args]
    IN IF IsStatement(parentType)
       THEN [type |-> "ExpressionStatement", expression |-> expression]
       ELSE expression

\* line 223 as `node._context = node._context || expression.arguments`
OpenListKept(node, fresh) ==
    IF "_context" \in DOMAIN node THEN node._context ELSE fresh

\* line 223: the array that the children of `node` will push into
OpenList(node, fresh) == fresh

\* lines 196-231: the enter callbacks of the visitor of transformer
TransformerEnter(node, parent) ==
    LET n == ast[node]
        home == ast[parent]._context
    IN IF n.type = "CallExpression"
       THEN LET fresh == Len(lists) + 1
                open == OpenList(n, fresh)
            IN /\ ast' = [ast EXCEPT ![node] = SetContext(n, open)]
               /\ lists' = [Append(lists, <<>>) EXCEPT ![home] =
                               Append(@, CallTarget(n, ast[parent].type, fresh))]
       ELSE /\ lists' = [lists EXCEPT ![home] =
                           Append(@, [type |-> n.type, value |-> n.value])]
            /\ UNCHANGED ast

\* lines 163-165 and 179-181: `methods && methods[m]`, then the call
Callback(m, node, parent) ==
    IF m \in visitor.methods[ast[node].type]
    THEN IF visitor.kind = "transformer"
         THEN TransformerEnter(node, parent) /\ UNCHANGED log
         ELSE /\ log' = Append(log, [method |-> m, node |-> node,
                                      parent |-> parent])
              /\ UNCHANGED <<ast, lists>>
    ELSE UNCHANGED <<ast, lists, log>>

\* lines 166-175: the array traverserArray is given for a node
Children(node) ==
    IF node.type = "Program" THEN node.body
    ELSE IF node.type = "CallExpression" THEN node.params
    ELSE <<>>

\* line 158 with the parent not handed on
FrameOrphan(node, parent) == [node |-> node, parent |-> null, at |-> "enter", i |-> 0]

\* the frame of a call traverserNode(node, parent), line 161
Frame(node, parent) == [node |-> node, parent |-> parent, at |-> "enter", i |-> 0]

Top == stack[Len(stack)]

InTraverser == pc = "traverser" /\ status = "running" /\ stack # <<>>

TravFrame == <<input, pc, current, tokens, value, newAst, earlier, visitor, output>>

\* lines 162-165
TraverserEnter ==
    /\ InTraverser
    /\ Top.at = "enter"
    /\ Callback("enter", Top.node, Top.parent)
    /\ stack' = [stack EXCEPT ![Len(stack)].at = "children"]
    /\ UNCHANGED <<status, error, TravFrame>>

\* lines 157-159: forEach hands the next child to traverserNode
TraverserDescend ==
    /\ InTraverser
    /\ Top.at = "children"
    /\ ast[Top.node].type \in SourceTypes
    /\ Top.i < Len(Children(ast[Top.node]))
    /\ stack' = Append([stack EXCEPT ![Len(stack)].i = @ + 1],
                       Frame(Children(ast[Top.node])[Top.i + 1], Top.node))
    /\ UNCHANGED <<status, error, ast, lists, log, TravFrame>>

\* lines 176-181: an unknown type throws; otherwise, the children done,
\* exit is called and traverserNode returns
TraverserExit ==
    /\ InTraverser
    /\ Top.at = "children"
    /\ IF ast[Top.node].type \notin SourceTypes
       THEN /\ status' = "thrown"
            /\ error' = TypeError(<<ast[Top.node].type>>)
            /\ UNCHANGED <<ast, lists, log, stack>>
       ELSE /\ ~(Top.i < Len(Children(ast[Top.node])))
            /\ Callback("exit", Top.node, Top.parent)
            /\ stack' = SubSeq(stack, 1, Len(stack) - 1)
            /\ UNCHANGED <<status, error>>
    /\ UNCHANGED TravFrame

traverser == TraverserEnter \/ TraverserDescend \/ TraverserExit

----------------------------------------------------------------------------
(* transformer, lines 187-235 *)

\* lines 188-194: the target Program, its body as the open list of the
\* source Program, and the call of traverser
transformer ==
    /\ newAst' = [type |-> "Program", body |-> Len(lists) + 1]
    /\ lists' = Append(lists, <<>>)
    /\ ast' = [ast EXCEPT ![Root] = SetContext(@, Len(lists) + 1)]
    /\ visitor' = TransformerVisitor
    /\ stack' = <<Frame(Root, null)>>
    /\ pc' = "traverser"
    /\ UNCHANGED <<input, status, error, current, tokens, value, log, output>>

\* line 265
Transform ==
    /\ pc = "transformer" /\ status = "running"
    /\ transformer
    /\ UNCHANGED earlier

\* lines 234 and 265: traverser has returned and compiler holds newAst
TransformerReturn ==
    /\ pc = "traverser" /\ status = "running"
    /\ stack = <<>>
    /\ visitor.kind = "transformer"
    /\ pc' = "codeGenerator"
    /\ UNCHANGED <<input, status, error, current, tokens, value, ast, lists,
                   newAst, earlier, visitor, stack, log, output>>

\* a caller that kept the source AST hands it to transformer once more
TransformAgain ==
    /\ pc = "codeGenerator" /\ status = "running"
    /\ Len(earlier) + 1 < MaxCalls
    /\ earlier' = Append(earlier, newAst)
    /\ transformer

----------------------------------------------------------------------------
(* codeGenerator, lines 238-255 *)

TargetTypes == {"Program", "ExpressionStatement", "CallExpression",
                "Identifier", "NumberLiteral", "StringLiteral"}

RECURSIVE Join(_, _)
\* Array.prototype.join
Join(texts, sep) ==
    IF texts = <<>> THEN <<>>
    ELSE IF Len(texts) = 1 THEN texts[1]
    ELSE texts[1] \o sep \o Join(Tail(texts), sep)

\* line 251: a string literal is put back between double quotes
Quoted(text) == <<"\"">> \o text \o <<"\"">>

\* line 243
Statement(text) == text \o <<";">>

RECURSIVE Reverse(_)
Reverse(texts) ==
    IF texts = <<>> THEN <<>> ELSE Append(Reverse(Tail(texts)), texts[1])

\* line 245 with the arguments joined last to first
CallReversed(callee, arguments) ==
    callee \o <<"(">> \o Join(Reverse(arguments), <<",">>) \o <<")">>

\* line 245
Call(callee, arguments) == callee \o <<"(">> \o Join(arguments, <<",">>) \o <<")">>

RECURSIVE codeGenerator(_, _)
\* lines 238-251, for a node whose arrays are in the heap ls
codeGenerator(ls, node) ==
    IF node.type = "Program"
    THEN Join([i \in DOMAIN ls[node.body] |-> codeGenerator(ls, ls[node.body][i])],
              <<"\n">>)
    ELSE IF node.type = "ExpressionStatement"
    THEN Statement(codeGenerator(ls, node.expression))
    ELSE IF node.type = "CallExpression"
    THEN Call(codeGenerator(ls, node.callee),
              [i \in DOMAIN ls[node.arguments] |->
                  codeGenerator(ls, ls[node.arguments][i])])
    ELSE IF node.type = "Identifier"
    THEN node.name
    ELSE IF node.type = "NumberLiteral"
    THEN node.value
    ELSE Quoted(node.value)

RECURSIVE Unrecognized(_, _)
\* lines 252-253: whether codeGenerator meets a node of no known type
Unrecognized(ls, node) ==
    IF node.type \notin TargetTypes THEN TRUE
    ELSE IF node.type = "Program"
    THEN \E i \in DOMAIN ls[node.body] : Unrecognized(ls, ls[node.body][i])
    ELSE IF node.type = "ExpressionStatement"
    THEN Unrecognized(ls, node.expression)
    ELSE IF node.type = "CallExpression"
    THEN \/ Unrecognized(ls, node.callee)
         \/ \E i \in DOMAIN ls[node.arguments] :
                Unrecognized(ls, ls[node.arguments][i])
    ELSE FALSE

\* lines 266-267
Generate ==
    /\ pc = "codeGenerator" /\ status = "running"
    /\ IF Unrecognized(lists, newAst)
       THEN /\ status' = "thrown"
            /\ error' = TypeError(<<"unrecognized">>)
            /\ UNCHANGED output
       ELSE /\ output' = codeGenerator(lists, newAst)
            /\ status' = "returned"
            /\ UNCHANGED error
    /\ UNCHANGED <<input, pc, current, tokens, value, ast, lists, newAst,
                   earlier, visitor, stack, log>>

\* lines 262-268
compiler == tokenizer \/ Parse \/ Transform \/ traverser \/ TransformerReturn \/ Generate

----------------------------------------------------------------------------

Start(in) ==
    /\ input = in
    /\ pc = "tokenizer"
    /\ status = "running"
    /\ error = NoError
    /\ current = 0
    /\ tokens = <<>>
    /\ value = <<>>
    /\ ast = <<>>
    /\ lists = <<>>
    /\ newAst = [type |-> "Program", body |-> 0]
    /\ earlier = <<>>
    /\ visitor = NoVisitor
    /\ stack = <<>>
    /\ log = <<>>
    /\ output = <<>>

Init == \E in \in Inputs : Start(in)

Next == compiler

\* compiler applied to one input
Spec == Init /\ [][Next]_vars

\* the pipeline is one synchronous call: it runs while a step is left
FairSpec == Init /\ [][Next]_vars /\ WF_vars(Next)

NextAgain == compiler \/ TransformAgain

\* compiler applied to one input, by a caller that may hand the
\* source AST to transformer again before generating
SpecAgain == Init /\ [][NextAgain]_vars

\* the visitors tried: enter and exit for each set of node kinds, and enter
\* alone and exit alone for every kind
Recorders ==
    {Recorder([t \in SourceTypes |-> IF t \in T THEN {"enter", "exit"} ELSE {}]) :
        T \in SUBSET SourceTypes}
    \cup {Recorder([t \in SourceTypes |-> {m}]) : m \in {"enter", "exit"}}

\* a caller hands the AST that parser returned to traverser, line 155
Traverse ==
    /\ pc = "transformer" /\ status = "running"
    /\ \E v \in Recorders : visitor' = v
    /\ stack' = <<Frame(Root, null)>>
    /\ pc' = "traverser"
    /\ UNCHANGED <<input, status, error, current, tokens, value, ast, lists,
                   newAst, earlier, log, output>>

\* line 185: traverser returns to that caller
TraverserReturn ==
    /\ pc = "traverser" /\ status = "running"
    /\ stack = <<>>
    /\ visitor.kind = "recorder"
    /\ pc' = "traversed"
    /\ UNCHANGED <<input, status, error, current, tokens, value, ast, lists,
                   newAst, earlier, visitor, stack, log, output>>

NextTraverse == tokenizer \/ Parse \/ Traverse \/ traverser \/ TraverserReturn

\* tokenizer and parser applied to one input, and traverser to the result
SpecTraverse == Init /\ [][NextTraverse]_vars

----------------------------------------------------------------------------
(* What the claims are stated with *)

TokenizerPcs ==
    {"tokenizer", "tokenizer.number", "tokenizer.string", "tokenizer.name",
     "tokenizer.number.next", "tokenizer.string.next", "tokenizer.name.next"}

TokenizerReturned == pc \notin TokenizerPcs

ParserReturned == pc \in {"transformer", "traverser", "codeGenerator", "traversed"}

TransformerReturned == pc = "codeGenerator"

ThrownByTokenizer == status = "thrown" /\ pc \in TokenizerPcs

Last(text) == text[Len(text)]

RECURSIVE ExprEnd(_, _), ArgsEnd(_, _), ExprsFrom(_, _)
\* the grammar of the input language over tokens:
\*   expr ::= number | string | ( name expr* )
\* ExprEnd is the index after the expr that starts at token i, 0 when none does
ExprEnd(toks, i) ==
    IF i > Len(toks) THEN 0
    ELSE IF toks[i].type \in {"number", "string"} THEN i + 1
    ELSE IF toks[i] = Paren("(") /\ i + 1 <= Len(toks) /\ toks[i + 1].type = "name"
    THEN ArgsEnd(toks, i + 2)
    ELSE 0
ArgsEnd(toks, i) ==
    IF i > Len(toks) THEN 0
    ELSE IF toks[i] = Paren(")") THEN i + 1
    ELSE LET j == ExprEnd(toks, i) IN IF j = 0 THEN 0 ELSE ArgsEnd(toks, j)
ExprsFrom(toks, i) ==
    IF i > Len(toks) THEN TRUE
    ELSE LET j == ExprEnd(toks, i) IN j # 0 /\ ExprsFrom(toks, j)

\* the input is a run of well-formed expressions
WellFormed == TokenizerReturned /\ ExprsFrom(tokens, 1)

RECURSIVE Commas(_)
Commas(texts) ==
    IF texts = <<>> THEN <<>>
    ELSE IF Len(texts) = 1 THEN texts[1]
    ELSE texts[1] \o <<",">> \o Commas(Tail(texts))

RECURSIVE R(_, _)
\* the reference rendering of the source node n of the heap
R(heap, n) ==
    IF heap[n].type = "NumberLiteral" THEN heap[n].value
    ELSE IF heap[n].type = "StringLiteral"
    THEN <<"\"">> \o heap[n].value \o <<"\"">>
    ELSE heap[n].name \o <<"(">>
         \o Commas([i \in DOMAIN heap[n].params |-> R(heap, heap[n].params[i])])
         \o <<")">>

RECURSIVE Split(_)
Split(text) ==
    IF \E k \in DOMAIN text : text[k] = "\n"
    THEN LET k == CHOOSE k \in DOMAIN text :
                     text[k] = "\n" /\ \A h \in 1..(k - 1) : text[h] # "\n"
         IN <<SubSeq(text, 1, k - 1)>> \o Split(SubSeq(text, k + 1, Len(text)))
    ELSE <<text>>

\* the newline-separated segments of the output
Lines(text) == IF text = <<>> THEN <<>> ELSE Split(text)

\* the number of "(" less the number of ")" in the first k characters
Depth(text, k) ==
    Cardinality({h \in 1..k : text[h] = "("}) - Cardinality({h \in 1..k : text[h] = ")"})

Balanced(text) ==
    /\ Depth(text, Len(text)) = 0
    /\ \A k \in 1..Len(text) : Depth(text, k) >= 0

SourceCalls == {n \in DOMAIN ast : ast[n].type = "CallExpression"}

\* some call of the source AST has a call among its params
HasNestedCall ==
    \E n \in SourceCalls : \E i \in DOMAIN ast[n].params :
        ast[ast[n].params[i]].type = "CallExpression"

----------------------------------------------------------------------------
(* C1 *)

\* C1: for a well-formed input compile returns a string with balanced
\* parentheses that holds exactly one `;`-terminated statement per top-level
\* expression, in input order, a top-level number or string included.
C1_OneStatementPerExpression ==
    (status = "returned" /\ WellFormed) =>
        /\ Balanced(output)
        /\ Len(Lines(output)) = Len(ast[Root].body)
        /\ \A i \in DOMAIN Lines(output) :
              Lines(output)[i] = R(ast, ast[Root].body[i]) \o <<";">>

----------------------------------------------------------------------------
(* C2 *)

\* C2: every CallExpression of a tree that parse returns has a non-empty
\* name that is the text of a Name token, the one that follows its `(`;
\* parse fails when the token after a LeftParen is no Name.
C2_CalleeIsName ==
    ParserReturned =>
        \A n \in SourceCalls :
            /\ ast[n].name # <<>>
            /\ \E i \in 2..Len(tokens) :
                  /\ tokens[i - 1] = Paren("(")
                  /\ tokens[i].type = "name"
                  /\ tokens[i].value = ast[n].name

----------------------------------------------------------------------------
(* C3 *)

\* C3: for every source string each stage completes or fails: the scan of
\* tokenizer ends, an opening `"` without a closing one included, and so
\* does parser, so every compile ends by returning or throwing.
C3_EveryStageEnds == <>(status \in {"returned", "thrown"})

----------------------------------------------------------------------------
(* C4 *)

\* C4: once transform has returned, the source AST is as parser returned
\* it: no node carries a `_context` attribute.
C4_NoContextAfterTransform ==
    TransformerReturned =>
        /\ \A n \in DOMAIN ast : "_context" \notin DOMAIN ast[n]
        /\ ast = parser(tokens).heap

----------------------------------------------------------------------------
(* C5 *)

Recognized == {"(", ")", "\""} \cup Spaces \cup Digits \cup Letters

\* the scan is at the top of its loop on a character of no class
AtUnknown ==
    /\ pc = "tokenizer" /\ status = "running"
    /\ current < Len(input)
    /\ input[current + 1] \notin Recognized

CarriesCharacter(e, c) == e.message # <<>> /\ Last(e.message) = c

CarriesOffset(e, offset) ==
    \/ "offset" \in DOMAIN e /\ e.offset = offset
    \/ \E i \in DOMAIN e.message : e.message[i] = ToString(offset)

\* C5 as claimed: when tokenize fails, the error carries the offending
\* character and its offset in the input.
C5_ErrorCarriesOffset ==
    ThrownByTokenizer =>
        /\ CarriesCharacter(error, input[current + 1])
        /\ CarriesOffset(error, current)

C5_Step ==
    /\ AtUnknown =>
          /\ status' = "thrown" /\ pc' = pc
          /\ error'.name = "TypeError"
          /\ CarriesCharacter(error', input[current + 1])
    /\ (pc \in TokenizerPcs /\ status = "running" /\ status' = "thrown") => AtUnknown
    /\ ThrownByTokenizer => UNCHANGED vars

\* The rest of C5, which the code keeps: tokenize fails exactly when its
\* scan reaches, outside a string literal, a character that is not `(`, `)`,
\* whitespace, a digit, `"` or a letter; the error carries the offending
\* character; and after the failure nothing more happens, so no token
\* sequence is returned.
C5_FailsExactlyOnUnknown == [][C5_Step]_vars

\* tokenize has failed after it had scanned some tokens
C5_Witness == ThrownByTokenizer /\ tokens # <<>> /\ current > 0

----------------------------------------------------------------------------
(* C6 *)

RECURSIVE Mirrors(_, _, _)
\* the target node t stands for the source node n whose parent has type
\* parentType: a literal as itself; a call under Program inside exactly one
\* ExpressionStatement; a call under a call bare, and rendered without `;`
Mirrors(n, t, parentType) ==
    IF ast[n].type # "CallExpression"
    THEN t = [type |-> ast[n].type, value |-> ast[n].value]
    ELSE LET call == IF parentType = "Program" THEN t.expression ELSE t IN
         /\ t.type = IF parentType = "Program" THEN "ExpressionStatement"
                     ELSE "CallExpression"
         /\ call.type = "CallExpression"
         /\ call.callee = [type |-> "Identifier", name |-> ast[n].name]
         /\ Len(lists[call.arguments]) = Len(ast[n].params)
         /\ \A i \in DOMAIN ast[n].params :
               Mirrors(ast[n].params[i], lists[call.arguments][i], "CallExpression")
         /\ parentType = "CallExpression" =>
               Last(codeGenerator(lists, t)) # ";"

\* C6: in the target tree that transform returns, a call whose source
\* parent is the Program is in Program.body inside exactly one
\* ExpressionStatement, and a call whose source parent is a call is in the
\* arguments of that call, unwrapped, at any depth, and renders without `;`.
C6_StatementsOnlyAtTopLevel ==
    TransformerReturned =>
        /\ Len(lists[newAst.body]) = Len(ast[Root].body)
        /\ \A i \in DOMAIN ast[Root].body :
              Mirrors(ast[Root].body[i], lists[newAst.body][i], "Program")

\* transform has returned a tree with a call nested in a call
C6_Witness == TransformerReturned /\ HasNestedCall

----------------------------------------------------------------------------
(* C7 *)

\* C7: for each top-level call of a well-formed input, its segment of the
\* output is the reference rendering of the call followed by `;`.
C7_CallsRenderAsReference ==
    (status = "returned" /\ WellFormed) =>
        /\ Len(Lines(output)) = Len(ast[Root].body)
        /\ \A i \in DOMAIN ast[Root].body :
              ast[ast[Root].body[i]].type = "CallExpression" =>
                  Lines(output)[i] = R(ast, ast[Root].body[i]) \o <<";">>

\* line 269: compiler('(add 2 (subtract 3 7))') has returned
\* add(2,subtract(3,7));
C7_Witness ==
    /\ status = "returned" /\ WellFormed /\ HasNestedCall
    /\ output = <<"a", "d", "d", "(", "2", ",", "s", "u", "b", "t", "r", "a",
                  "c", "t", "(", "3", ",", "7", ")", ")", ";">>

----------------------------------------------------------------------------
(* C8 *)

RECURSIVE Visits(_, _), VisitsFrom(_, _, _)
\* the callbacks of a depth-first, left-to-right walk of node n
Visits(n, parent) ==
    LET Event(m) == IF m \in visitor.methods[ast[n].type]
                    THEN <<[method |-> m, node |-> n, parent |-> parent]>>
                    ELSE <<>>
    IN Event("enter") \o VisitsFrom(Children(ast[n]), 1, n) \o Event("exit")
VisitsFrom(children, i, parent) ==
    IF i > Len(children) THEN <<>>
    ELSE Visits(children[i], parent) \o VisitsFrom(children, i + 1, parent)

IsPrefix(a, b) == Len(a) <= Len(b) /\ a = SubSeq(b, 1, Len(a))

\* C8: traverse calls enter(node, parent) before and exit(node, parent)
\* after the callbacks of the node's descendants, once each, depth first and
\* left to right, for the kinds the visitor defines; parent is the node's
\* parent in the tree and is missing for the root alone.
C8_DepthFirstVisits ==
    (visitor.kind = "recorder") =>
        /\ IsPrefix(log, Visits(Root, null))
        /\ pc = "traversed" => log = Visits(Root, null)
        /\ \A k \in DOMAIN log : (log[k].parent = null) <=> (log[k].node = Root)

\* traverse has returned from a tree with a nested call, every callback defined
C8_Witness ==
    /\ pc = "traversed" /\ HasNestedCall
    /\ \A t \in SourceTypes : visitor.methods[t] = {"enter", "exit"}
    /\ Len(log) = 2 * Len(ast)

----------------------------------------------------------------------------
(* C9 *)

\* the last index of the run of characters of class that starts at i
RunEnd(in, i, class) ==
    CHOOSE j \in i..Len(in) :
        /\ \A k \in i..j : in[k] \in class
        /\ j = Len(in) \/ in[j + 1] \notin class

\* the index of the first `"` after i, 0 when there is none
QuoteAfter(in, i) ==
    IF \E j \in (i + 1)..Len(in) : in[j] = "\""
    THEN CHOOSE j \in (i + 1)..Len(in) :
            in[j] = "\"" /\ \A k \in (i + 1)..(j - 1) : in[k] # "\""
    ELSE 0

RECURSIVE Lexemes(_, _)
\* the tokens of in from index i on, each multi-character token maximal
Lexemes(in, i) ==
    IF i > Len(in) THEN <<>>
    ELSE IF in[i] \in {"(", ")"}
    THEN <<[type |-> "paren", value |-> <<in[i]>>]>> \o Lexemes(in, i + 1)
    ELSE IF in[i] \in Spaces THEN Lexemes(in, i + 1)
    ELSE IF in[i] \in Digits
    THEN LET j == RunEnd(in, i, Digits) IN
         <<[type |-> "number", value |-> SubSeq(in, i, j)]>> \o Lexemes(in, j + 1)
    ELSE IF in[i] = "\""
    THEN LET j == QuoteAfter(in, i) IN
         IF j = 0 THEN <<[type |-> "unterminated", value |-> <<>>]>>
         ELSE <<[type |-> "string", value |-> SubSeq(in, i + 1, j - 1)]>>
              \o Lexemes(in, j + 1)
    ELSE IF in[i] \in Letters
    THEN LET j == RunEnd(in, i, Letters) IN
         <<[type |-> "name", value |-> SubSeq(in, i, j)]>> \o Lexemes(in, j + 1)
    ELSE <<[type |-> "unknown", value |-> <<in[i]>>]>>

\* C9: when tokenize succeeds the tokens are in source order, whitespace
\* gives none, and each Number is a maximal run of digits and each Name a
\* maximal run of letters.
C9_MaximalMunch ==
    (TokenizerReturned /\ status # "thrown") => tokens = Lexemes(input, 1)

\* tokenize has returned a Number of several digits followed at once by a Name
C9_Witness ==
    /\ TokenizerReturned
    /\ \E i \in 1..(Len(tokens) - 1) :
          /\ tokens[i].type = "number" /\ Len(tokens[i].value) > 1
          /\ tokens[i + 1].type = "name"
          /\ \E k \in 1..Len(input) :
                SubSeq(input, k, k + Len(tokens[i].value)) =
                    tokens[i].value \o <<tokens[i + 1].value[1]>>

----------------------------------------------------------------------------
(* C10 *)

RECURSIVE Resolve(_, _)
\* the target tree below node, each array reference replaced by its elements
Resolve(ls, node) ==
    IF node.type = "Program"
    THEN [type |-> "Program",
          body |-> [i \in DOMAIN ls[node.body] |-> Resolve(ls, ls[node.body][i])]]
    ELSE IF node.type = "ExpressionStatement"
    THEN [type |-> "ExpressionStatement",
          expression |-> Resolve(ls, node.expression)]
    ELSE IF node.type = "CallExpression"
    THEN [type |-> "CallExpression", callee |-> node.callee,
          arguments |-> [i \in DOMAIN ls[node.arguments] |->
                            Resolve(ls, ls[node.arguments][i])]]
    ELSE node

C10_SameTree ==
    TransformerReturned =>
        \A i \in DOMAIN earlier : Resolve(lists, earlier[i]) = Resolve(lists, newAst)

C10_Step ==
    \A i \in DOMAIN earlier : Resolve(lists', earlier[i]) = Resolve(lists, earlier[i])

\* C10: transform called twice on one source AST returns two equal target
\* trees, and the later call leaves the tree of the earlier call as it was.
C10_TransformTwice == [](C10_SameTree) /\ [][C10_Step]_vars

\* transform has returned a second time for a tree with a nested call
C10_Witness == TransformerReturned /\ earlier # <<>> /\ HasNestedCall

====
